---- MODULE Spec2Model ----
(***************************************************************************)
(* Model of app.py: a Flask front end over a mysql.connector connection    *)
(* pool and one table, employees.  Worker threads run the four handlers;   *)
(* every blocking call to the pool or to the store is one step of the      *)
(* thread that makes it, so requests interleave at statement boundaries.   *)
(***************************************************************************)
EXTENDS Integers, Sequences, FiniteSets, TLC

(***************************************************************************)
(* Bounds of the model.                                                    *)
(***************************************************************************)
MaxRequests == 3

Threads == {1, 2}

(***************************************************************************)
(* Values.  A value carries its Python type in `kind`; its text is a       *)
(* sequence of tokens.                                                     *)
(***************************************************************************)
Null == [kind |-> "null", v |-> <<>>]

Absent == [kind |-> "absent", v |-> <<>>]

Str(s) == [kind |-> "str", v |-> s]

Num(n) == [kind |-> "int", v |-> <<n>>]

pool_size == 5

(* JSON bodies a client may post to /employees.  NoBody is a request whose *)
(* body is not a JSON object: request.get_json() yields None.              *)
NoBody == [json |-> "none"]

HireDateText == Str(<<"2024", "-", "01", "-", "15">>)

Body(first, lastn, email, phone, salary, hire) ==
  [json |-> "object", first_name |-> first, last_name |-> lastn, email |-> email,
   phone |-> phone, department |-> Absent, position |-> Absent,
   salary |-> salary, hire_date |-> hire]

EmailA == Str(<<"a", "@", "x">>)

EmailB == Str(<<"b", "@", "x">>)

(* Bodies that pass validation: the required fields alone, with every      *)
(* optional field the table types differently (phone, salary, hire_date),  *)
(* and a second address with phone and salary.                             *)
ValidPayloads ==
  {Body(Str(<<"A">>), Str(<<"L">>), EmailA, Absent, Absent, Absent),
   Body(Str(<<"A">>), Str(<<"L">>), EmailA, Str(<<"5", "5">>), Num("5"), HireDateText),
   Body(Str(<<"B">>), Str(<<"L">>), EmailB, Str(<<"5", "5">>), Num("5"), Absent)}

(* Bodies that must not pass: no JSON object, a required field absent or   *)
(* empty, an email that is text without "@", an email that is a number.    *)
InvalidPayloads ==
  {NoBody,
   Body(Absent, Str(<<"L">>), EmailA, Absent, Absent, Absent),
   Body(Str(<<"A">>), Str(<<>>), EmailA, Absent, Absent, Absent),
   Body(Str(<<"A">>), Str(<<"L">>), Absent, Absent, Absent, HireDateText),
   Body(Str(<<"A">>), Str(<<"L">>), Str(<<"a", "x">>), Absent, Absent, Absent),
   Body(Str(<<"A">>), Str(<<"L">>), Num("7"), Absent, Absent, Absent)}

Payloads == ValidPayloads \cup InvalidPayloads

(* `field not in data` and data.get(field)                                 *)
Has(data, field) == data[field].kind # "absent"

Get(data, field) == IF Has(data, field) THEN data[field] ELSE Null

(* Python truthiness of a JSON value: `not data[field]`                    *)
Falsy(value) ==
  \/ value.kind = "null"
  \/ value.kind = "str" /\ value.v = <<>>
  \/ value.kind = "int" /\ value.v = <<"0">>

(* `'@' in value` for a str                                                *)
ContainsAt(value) == \E i \in 1..Len(value.v) : value.v[i] = "@"

required_fields == <<"first_name", "last_name", "email">>

RECURSIVE FirstMissing(_, _)
FirstMissing(data, i) ==
  IF i > Len(required_fields) THEN "none"
  ELSE IF ~Has(data, required_fields[i]) \/ Falsy(data[required_fields[i]])
       THEN required_fields[i]
       ELSE FirstMissing(data, i + 1)

(* The validation block of add_employee.  The result is the response it    *)
(* returns, "TypeError" when an operator raises on the value, or "ok".     *)
TypeErrorOnEmail(data) == data.email.kind = "int"

Validate(data) ==
  IF data = NoBody THEN [verdict |-> "TypeError", error |-> "none"]
  ELSE IF FirstMissing(data, 1) # "none"
       THEN [verdict |-> "400", error |-> "Missing required field: " \o FirstMissing(data, 1)]
  ELSE IF TypeErrorOnEmail(data) THEN [verdict |-> "TypeError", error |-> "none"]
  ELSE IF ~ContainsAt(data.email)
       THEN [verdict |-> "400", error |-> "Invalid email format"]
  ELSE [verdict |-> "ok", error |-> "none"]

(***************************************************************************)
(* The store: column types of the employees table and what the connector   *)
(* hands back for them.                                                    *)
(***************************************************************************)
(* VARCHAR columns                                                         *)
to_varchar(value) == value

(* DECIMAL(10, 2): a number comes back as a Decimal with two places        *)
to_decimal(value) ==
  IF value.kind = "int" THEN [kind |-> "decimal", v |-> value.v \o <<".", "00">>]
  ELSE value

(* DATE: "YYYY-MM-DD" comes back as a datetime.date                        *)
to_date(value) ==
  IF value.kind = "str" /\ Len(value.v) = 5
  THEN [kind |-> "date", v |-> <<value.v[1], value.v[3], value.v[5]>>]
  ELSE value

Digit(n) == <<"0", "1", "2", "3", "4", "5", "6", "7", "8", "9">>[(n % 10) + 1]

(* TIMESTAMP DEFAULT CURRENT_TIMESTAMP: a datetime.datetime.  The store's  *)
(* clock is logical: the second is the number of the insert.               *)
current_timestamp(tick) ==
  [kind |-> "datetime", v |-> <<"2024", "01", "01", "00", "00", Digit(tick)>>]

(* The row an INSERT with `values` builds under the generated id           *)
InsertedRow(data, id) ==
  [id |-> id,
   first_name |-> to_varchar(data.first_name),
   last_name |-> to_varchar(data.last_name),
   email |-> to_varchar(data.email),
   phone |-> to_varchar(Get(data, "phone")),
   department |-> to_varchar(Get(data, "department")),
   position |-> to_varchar(Get(data, "position")),
   salary |-> to_decimal(Get(data, "salary")),
   hire_date |-> to_date(Get(data, "hire_date")),
   created_at |-> current_timestamp(id),
   updated_at |-> current_timestamp(id)]

(* Mutant: the email column without its UNIQUE constraint                  *)
UniqueViolationOff(table, email) == FALSE

(* email VARCHAR(255) UNIQUE: error 1062 when a stored row has the email   *)
UniqueViolation(table, email) == \E i \in DOMAIN table : table[i].email = email

(* Mutant: the SELECT ordered by id descending                             *)
RECURSIVE OrderByIdDesc(_)
OrderByIdDesc(table) ==
  IF DOMAIN table = {} THEN <<>>
  ELSE LET m == CHOOSE i \in DOMAIN table : \A j \in DOMAIN table : i >= j
       IN <<table[m]>> \o OrderByIdDesc([j \in DOMAIN table \ {m} |-> table[j]])

(* SELECT * FROM employees ORDER BY id                                     *)
RECURSIVE OrderById(_)
OrderById(table) ==
  IF DOMAIN table = {} THEN <<>>
  ELSE LET m == CHOOSE i \in DOMAIN table : \A j \in DOMAIN table : i <= j
       IN <<table[m]>> \o OrderById([j \in DOMAIN table \ {m} |-> table[j]])

(***************************************************************************)
(* Row mapping shared by the three handlers.                               *)
(***************************************************************************)
(* datetime.isoformat()                                                    *)
isoformat(value) ==
  Str(<<value.v[1], "-", value.v[2], "-", value.v[3], "T",
        value.v[4], ":", value.v[5], ":", value.v[6]>>)

(* isinstance(value, datetime)                                             *)
IsDatetime(value) == value.kind = "datetime"

(* dict(zip(columns, employee)) followed by the isoformat loop             *)
EmployeeDict(row) ==
  [k \in DOMAIN row |->
     IF k = "id" THEN row[k]
     ELSE IF IsDatetime(row[k]) THEN isoformat(row[k]) ELSE row[k]]

EmployeesList(rowseq) == [i \in 1..Len(rowseq) |-> EmployeeDict(rowseq[i])]

(***************************************************************************)
(* Pool and handler plumbing.                                              *)
(***************************************************************************)
(* Mutant: get_db_connection without the `connection_pool is None` check,  *)
(* connecting on demand                                                    *)
get_db_connection_lazy(pool, avail, fault) ==
  IF fault = "acquire" THEN "Error" ELSE "connection"

(* get_db_connection: "Exception" when the pool was never built, a         *)
(* connector error when the pool has no connection to give or cannot       *)
(* reconnect the one it takes (it is then put back), else a connection.    *)
get_db_connection(pool, avail, fault) ==
  IF pool = "None" THEN "Exception"
  ELSE IF avail = 0 \/ fault = "acquire" THEN "Error"
  ELSE "connection"

(* The finally block of the three handlers: close cursor and connection    *)
(* when `connection` is a local and still connected.  cursor.close() on an *)
(* unbound cursor raises and connection.close() is not reached.            *)
FinallyHandler(in_locals, connected, cursor_bound) ==
  IF in_locals /\ connected
  THEN IF cursor_bound THEN "closed" ELSE "raised"
  ELSE "skipped"

(* The finally block of init_database: no `in locals()` guard.             *)
FinallyInit(in_locals, connected, cursor_bound) ==
  IF ~in_locals THEN "raised"
  ELSE IF connected THEN IF cursor_bound THEN "closed" ELSE "raised"
  ELSE "skipped"

(* except clauses of add_employee                                          *)
CreateExcept(exc) ==
  IF exc = "Error1062" THEN [status |-> 409, error |-> "Email already exists"]
  ELSE IF exc = "Error" THEN [status |-> 500, error |-> "Database error occurred"]
  ELSE [status |-> 500, error |-> "Internal server error"]

(* except clauses of get_employee and get_all_employees                    *)
ReadExcept(exc) ==
  IF exc = "Error" THEN [status |-> 500, error |-> "Database error occurred"]
  ELSE [status |-> 500, error |-> "Internal server error"]

(* An exception that leaves the handler: the framework answers 500 with no *)
(* JSON error object.                                                      *)
Unhandled == [status |-> 500, error |-> "unhandled"]

(* Acquire a connection and create the cursor, as each data-bearing        *)
(* handler starts.  took = 1 when a connection left the pool.              *)
BeginFaults == {"none", "acquire", "cursor_lost", "cursor_err"}

StatementFaults == {"none", "error", "lost"}

Acquire(pool, avail, fault) ==
  LET got == get_db_connection(pool, avail, fault) IN
  IF got # "connection" THEN [raised |-> got, took |-> 0, fin |-> FinallyHandler(FALSE, FALSE, FALSE)]
  ELSE IF fault = "cursor_lost" THEN [raised |-> "Error", took |-> 1, fin |-> FinallyHandler(TRUE, FALSE, FALSE)]
  ELSE IF fault = "cursor_err" THEN [raised |-> "Error", took |-> 1, fin |-> FinallyHandler(TRUE, TRUE, FALSE)]
  ELSE [raised |-> "none", took |-> 1, fin |-> "open"]

(* Connections back in the pool after a handler that held one leaves       *)
Released(fin) == IF fin = "closed" THEN 1 ELSE 0

(***************************************************************************)
(* State.                                                                  *)
(***************************************************************************)
VARIABLES
  connection_pool,  \* "pool", or "None" when MySQLConnectionPool(...) raised
  phase,            \* "boot", "serving" (app.run) or "exited"
  exit_code,
  available,        \* connections in the pool's queue
  table_exists,
  init_fault,       \* what went wrong in init_database, "-" before it ran
  employees,        \* committed rows of the table, by id
  auto_increment,   \* next AUTO_INCREMENT value
  pc,               \* where each worker thread is in its handler
  req,              \* the request a thread is serving
  lastrowid,        \* cursor.lastrowid of a thread's insert, 0 when none
  pending,          \* the row a thread inserted and has not committed
  snap,             \* ids answered 201 before a thread's request began
  nreq,             \* requests begun
  last,             \* the request completed last, with its response
  issued,           \* id -> the employee object a 201 response carried
  origin            \* id -> status answered by the create that generated it

vars == <<connection_pool, phase, exit_code, available, table_exists, init_fault, employees,
          auto_increment, pc, req, lastrowid, pending, snap, nreq, last, issued,
          origin>>

NoReq == [json |-> "idle"]

NoRow == [id |-> 0]

NoEmployee == [id |-> 0]

NoLast ==
  [n |-> 0, op |-> "none", req |-> NoReq, status |-> 0, error |-> "none",
   employee |-> NoEmployee, employees |-> <<>>, count |-> 0, fault |-> "none",
   seen |-> {}]

PathIds == {1, 2}

Idle == \A t \in Threads : pc[t] = "idle"

Workers ==
  /\ employees = <<>>
  /\ auto_increment = 1
  /\ pc = [t \in Threads |-> "idle"]
  /\ req = [t \in Threads |-> NoReq]
  /\ lastrowid = [t \in Threads |-> 0]
  /\ pending = [t \in Threads |-> NoRow]
  /\ snap = [t \in Threads |-> {}]
  /\ nreq = 0
  /\ last = NoLast
  /\ issued = <<>>
  /\ origin = <<>>

(* Module import: the pool is built, or construction raised and            *)
(* connection_pool is None.  Nothing has run init_database yet.            *)
Init ==
  /\ connection_pool \in {"pool", "None"}
  /\ available = IF connection_pool = "pool" THEN pool_size ELSE 0
  /\ phase = "boot"
  /\ exit_code = 0
  /\ table_exists = FALSE
  /\ init_fault = "-"
  /\ Workers

(***************************************************************************)
(* Startup: init_database and the __main__ block.                          *)
(***************************************************************************)
InitFaults == {"none", "acquire", "cursor_lost", "cursor_err", "execute",
               "execute_lost", "commit", "commit_lost", "lost_after"}

(* init_database: raised tells whether an exception leaves it, taken how   *)
(* many connections it took and did not give back, table whether the       *)
(* CREATE TABLE statement ran.                                             *)
init_database(pool, avail, fault) ==
  LET got == get_db_connection(pool, avail, fault) IN
  IF got # "connection"
  THEN [raised |-> TRUE, fin |-> FinallyInit(FALSE, FALSE, FALSE), took |-> 0, table |-> FALSE]
  ELSE IF fault = "cursor_lost"
  THEN [raised |-> TRUE, fin |-> FinallyInit(TRUE, FALSE, FALSE), took |-> 1, table |-> FALSE]
  ELSE IF fault = "cursor_err"
  THEN [raised |-> TRUE, fin |-> FinallyInit(TRUE, TRUE, FALSE), took |-> 1, table |-> FALSE]
  ELSE IF fault = "execute"
  THEN [raised |-> TRUE, fin |-> FinallyInit(TRUE, TRUE, TRUE), took |-> 1, table |-> FALSE]
  ELSE IF fault = "execute_lost"
  THEN [raised |-> TRUE, fin |-> FinallyInit(TRUE, FALSE, TRUE), took |-> 1, table |-> FALSE]
  ELSE IF fault = "commit"
  THEN [raised |-> TRUE, fin |-> FinallyInit(TRUE, TRUE, TRUE), took |-> 1, table |-> TRUE]
  ELSE IF fault = "commit_lost"
  THEN [raised |-> TRUE, fin |-> FinallyInit(TRUE, FALSE, TRUE), took |-> 1, table |-> TRUE]
  ELSE IF fault = "lost_after"
  THEN [raised |-> FALSE, fin |-> FinallyInit(TRUE, FALSE, TRUE), took |-> 1, table |-> TRUE]
  ELSE [raised |-> FALSE, fin |-> FinallyInit(TRUE, TRUE, TRUE), took |-> 1, table |-> TRUE]

(* Mutant: the __main__ block logging the failure and serving anyway       *)
MainGuardServe(raised) == "serving"

(* The __main__ block: exit(1) when init_database raises, else app.run     *)
MainGuard(raised) == IF raised THEN "exited" ELSE "serving"

Startup ==
  /\ phase = "boot"
  /\ \E fault \in InitFaults :
       LET r == init_database(connection_pool, available, fault) IN
       /\ phase' = MainGuard(r.raised \/ r.fin = "raised")
       /\ exit_code' = IF phase' = "exited" THEN 1 ELSE 0
       /\ available' = available - r.took + Released(r.fin)
       /\ table_exists' = r.table
       /\ init_fault' = fault
  /\ UNCHANGED <<connection_pool, employees, auto_increment, pc, req, lastrowid,
                 pending, snap, nreq, last, issued, origin>>

(***************************************************************************)
(* Request handlers.                                                       *)
(***************************************************************************)
(* A request goes to the first idle worker thread.                         *)
CanBegin(t) ==
  /\ phase = "serving"
  /\ pc[t] = "idle"
  /\ nreq < MaxRequests
  /\ \A u \in Threads : u < t => pc[u] # "idle"

(* A handler returns: the thread's locals go, the response is recorded.    *)
Complete(t, op, request, resp, employee, list, fault) ==
  /\ pc' = [pc EXCEPT ![t] = "idle"]
  /\ req' = [req EXCEPT ![t] = NoReq]
  /\ lastrowid' = [lastrowid EXCEPT ![t] = 0]
  /\ pending' = [pending EXCEPT ![t] = NoRow]
  /\ snap' = [snap EXCEPT ![t] = {}]
  /\ last' = [n |-> last.n + 1, op |-> op, req |-> request, status |-> resp.status,
              error |-> resp.error, employee |-> employee, employees |-> list,
              count |-> Len(list), fault |-> fault, seen |-> snap[t]]

(* The response of a handler whose body raised `exc` or returned `resp`,   *)
(* after its finally block.                                                *)
Answer(resp, fin) == IF fin = "raised" THEN Unhandled ELSE resp

(* GET /health                                                             *)
Health(t) ==
  /\ CanBegin(t)
  /\ nreq' = nreq + 1
  /\ pc' = pc
  /\ last' = [NoLast EXCEPT !.n = last.n + 1, !.op = "health", !.status = 200]
  /\ UNCHANGED <<connection_pool, phase, exit_code, available, table_exists, init_fault,
                 employees, auto_increment, req, lastrowid, pending, snap,
                 issued, origin>>

(* The finally block of a handler that holds a connection and a cursor,    *)
(* after a statement went through or failed with `fault`.                  *)
FinallyAfter(fault) == FinallyHandler(TRUE, fault # "lost", TRUE)

Settle(id, status) == [origin EXCEPT ![id] = status]

Bad(status, error) == [status |-> status, error |-> error]

(* POST /employees, up to the cursor: validation, get_db_connection,       *)
(* connection.cursor()                                                     *)
CreateBegin(t) ==
  /\ CanBegin(t)
  /\ nreq' = nreq + 1
  /\ \E data \in Payloads :
       LET v == Validate(data) IN
       IF v.verdict = "400"
       THEN /\ Complete(t, "create", data, Bad(400, v.error), NoEmployee, <<>>, "none")
            /\ UNCHANGED available
       ELSE IF v.verdict = "TypeError"
       THEN /\ Complete(t, "create", data,
                        Answer(CreateExcept("Exception"), FinallyHandler(FALSE, FALSE, FALSE)),
                        NoEmployee, <<>>, "none")
            /\ UNCHANGED available
       ELSE \E fault \in BeginFaults :
              LET a == Acquire(connection_pool, available, fault) IN
              /\ available' = available - a.took + Released(a.fin)
              /\ IF a.raised # "none"
                 THEN Complete(t, "create", data, Answer(CreateExcept(a.raised), a.fin),
                               NoEmployee, <<>>, fault)
                 ELSE /\ pc' = [pc EXCEPT ![t] = "c_insert"]
                      /\ req' = [req EXCEPT ![t] = data]
                      /\ UNCHANGED <<lastrowid, pending, snap, last>>
  /\ UNCHANGED <<connection_pool, phase, exit_code, table_exists, init_fault, employees,
                 auto_increment, issued, origin>>

(* An uncommitted insert of another connection holds the unique index     *)
(* entry of its email: an insert of the same email waits for it.           *)
LockedBy(rows, others, email) ==
  \E u \in others : IF rows[u] = NoRow THEN FALSE ELSE rows[u].email = email

(* cursor.execute(insert_query, values)                                    *)
CreateInsert(t) ==
  /\ pc[t] = "c_insert"
  /\ \E fault \in StatementFaults :
       LET data == req[t]
           id == auto_increment
           fin == FinallyAfter(fault)
       IN
       IF fault # "none"
       THEN /\ Complete(t, "create", data, Answer(CreateExcept("Error"), fin),
                        NoEmployee, <<>>, fault)
            /\ available' = available + Released(fin)
            /\ UNCHANGED <<auto_increment, origin>>
       ELSE /\ ~LockedBy(pending, Threads \ {t}, to_varchar(data.email))
            /\ auto_increment' = auto_increment + 1
            /\ IF UniqueViolation(employees, to_varchar(data.email))
               THEN /\ Complete(t, "create", data, Answer(CreateExcept("Error1062"), fin),
                                NoEmployee, <<>>, fault)
                    /\ available' = available + Released(fin)
                    /\ UNCHANGED origin
               ELSE /\ pending' = [pending EXCEPT ![t] = InsertedRow(data, id)]
                    /\ lastrowid' = [lastrowid EXCEPT ![t] = id]
                    /\ origin' = origin @@ (id :> 0)
                    /\ pc' = [pc EXCEPT ![t] = "c_commit"]
                    /\ UNCHANGED <<available, req, snap, last>>
  /\ UNCHANGED <<connection_pool, phase, exit_code, table_exists, init_fault, employees,
                 nreq, issued>>

(* connection.commit()                                                     *)
CreateCommit(t) ==
  /\ pc[t] = "c_commit"
  /\ \E fault \in StatementFaults :
       LET fin == FinallyAfter(fault) IN
       IF fault # "none"
       THEN /\ Complete(t, "create", req[t], Answer(CreateExcept("Error"), fin),
                        NoEmployee, <<>>, fault)
            /\ available' = available + Released(fin)
            /\ origin' = Settle(lastrowid[t], 500)
            /\ UNCHANGED employees
       ELSE /\ employees' = employees @@ (lastrowid[t] :> pending[t])
            /\ pending' = [pending EXCEPT ![t] = NoRow]
            /\ pc' = [pc EXCEPT ![t] = "c_reread"]
            /\ UNCHANGED <<available, req, lastrowid, snap, last, origin>>
  /\ UNCHANGED <<connection_pool, phase, exit_code, table_exists, init_fault, auto_increment,
                 nreq, issued>>

(* employee_id = cursor.lastrowid, the SELECT by id, fetchone, the row     *)
(* mapping and the 201 response                                            *)
CreateReread(t) ==
  /\ pc[t] = "c_reread"
  /\ \E fault \in StatementFaults :
       LET fin == FinallyAfter(fault)
           employee_id == lastrowid[t]
           employee_dict == EmployeeDict(employees[employee_id])
       IN
       /\ available' = available + Released(fin)
       /\ IF fault # "none"
          THEN /\ Complete(t, "create", req[t], Answer(CreateExcept("Error"), fin),
                           NoEmployee, <<>>, fault)
               /\ origin' = Settle(employee_id, 500)
               /\ UNCHANGED issued
          ELSE /\ Complete(t, "create", req[t], Answer(Bad(201, "none"), fin),
                           employee_dict, <<>>, fault)
               /\ origin' = Settle(employee_id, 201)
               /\ issued' = issued @@ (employee_id :> employee_dict)
  /\ UNCHANGED <<connection_pool, phase, exit_code, table_exists, init_fault, employees,
                 auto_increment, nreq>>

(* Start of a read handler: get_db_connection and connection.cursor()      *)
ReadBegin(t, op, request, next) ==
  /\ CanBegin(t)
  /\ nreq' = nreq + 1
  /\ \E fault \in BeginFaults :
       LET a == Acquire(connection_pool, available, fault) IN
       /\ available' = available - a.took + Released(a.fin)
       /\ IF a.raised # "none"
          THEN Complete(t, op, request, Answer(ReadExcept(a.raised), a.fin),
                        NoEmployee, <<>>, fault)
          ELSE /\ pc' = [pc EXCEPT ![t] = next]
               /\ req' = [req EXCEPT ![t] = request]
               /\ snap' = [snap EXCEPT ![t] = DOMAIN issued]
               /\ UNCHANGED <<lastrowid, pending, last>>
  /\ UNCHANGED <<connection_pool, phase, exit_code, table_exists, init_fault, employees,
                 auto_increment, issued, origin>>

(* GET /employees/<id>                                                     *)
GetBegin(t) == \E i \in PathIds : ReadBegin(t, "get", [path |-> i], "g_select")

GetSelect(t) ==
  /\ pc[t] = "g_select"
  /\ \E fault \in StatementFaults :
       LET fin == FinallyAfter(fault)
           employee_id == req[t].path
       IN
       /\ available' = available + Released(fin)
       /\ IF fault # "none"
          THEN Complete(t, "get", req[t], Answer(ReadExcept("Error"), fin),
                        NoEmployee, <<>>, fault)
          ELSE IF employee_id \notin DOMAIN employees
          THEN Complete(t, "get", req[t], Answer(Bad(404, "Employee not found"), fin),
                        NoEmployee, <<>>, fault)
          ELSE Complete(t, "get", req[t], Answer(Bad(200, "none"), fin),
                        EmployeeDict(employees[employee_id]), <<>>, fault)
  /\ UNCHANGED <<connection_pool, phase, exit_code, table_exists, init_fault, employees,
                 auto_increment, nreq, issued, origin>>

(* GET /employees                                                          *)
GetAllBegin(t) == ReadBegin(t, "get_all", NoReq, "a_select")

GetAllSelect(t) ==
  /\ pc[t] = "a_select"
  /\ \E fault \in StatementFaults :
       LET fin == FinallyAfter(fault)
           employees_list == EmployeesList(OrderById(employees))
       IN
       /\ available' = available + Released(fin)
       /\ IF fault # "none"
          THEN Complete(t, "get_all", req[t], Answer(ReadExcept("Error"), fin),
                        NoEmployee, <<>>, fault)
          ELSE Complete(t, "get_all", req[t], Answer(Bad(200, "none"), fin),
                        NoEmployee, employees_list, fault)
  /\ UNCHANGED <<connection_pool, phase, exit_code, table_exists, init_fault, employees,
                 auto_increment, nreq, issued, origin>>

Serve ==
  \E t \in Threads :
    \/ Health(t)
    \/ CreateBegin(t)
    \/ CreateInsert(t)
    \/ CreateCommit(t)
    \/ CreateReread(t)
    \/ GetBegin(t)
    \/ GetSelect(t)
    \/ GetAllBegin(t)
    \/ GetAllSelect(t)

Next == Startup \/ Serve

(* The program run as a script: python app.py                              *)
Spec == Init /\ [][Next]_vars

(* The module imported by a WSGI host, which calls the handlers without    *)
(* running the __main__ block; the table is there from an earlier run.     *)
InitImported ==
  /\ connection_pool \in {"pool", "None"}
  /\ available = IF connection_pool = "pool" THEN pool_size ELSE 0
  /\ phase = "serving"
  /\ exit_code = 0
  /\ table_exists = TRUE
  /\ init_fault = "-"
  /\ Workers

SpecImported == InitImported /\ [][Serve]_vars

(***************************************************************************)
(* Properties.                                                             *)
(***************************************************************************)
Completes(op) == last'.n # last.n /\ last'.op = op

Required(data) == Validate(data).verdict = "ok"

(* Rows are only ever added: no step changes or removes a committed row.   *)
RowsKept ==
  \A i \in DOMAIN employees : i \in DOMAIN employees' /\ employees'[i] = employees[i]

(* C1: whenever no request is in flight, every connection of the pool is   *)
(* back in the pool (stated of the code, which TLC refutes: a connection   *)
(* that is no longer connected when a handler leaves is never closed).     *)
C1_AllReleased ==
  (phase = "serving" /\ connection_pool = "pool" /\ Idle) => available = pool_size

C2_Emails ==
  /\ \A i, j \in DOMAIN employees : i # j => employees[i].email # employees[j].email
  /\ \A i, j \in DOMAIN issued : i # j => issued[i].email # issued[j].email
  /\ (last.op = "create" /\ last.status = 409) =>
       /\ last.error = "Email already exists"
       /\ \E i \in DOMAIN employees : employees[i].email = last.req.email

C2_DuplicateStep ==
  \A t \in Threads :
    (pc[t] = "c_insert" /\ pc'[t] = "idle" /\ UniqueViolation(employees, req[t].email)) =>
      /\ last'.fault = "none" => last'.status = 409
      /\ last'.status \in {409, 500}
      /\ employees' = employees

(* C2: no two stored rows share an email and no two 201 responses carry    *)
(* the same email; an insert of a stored email that the store executes is  *)
(* answered 409 "Email already exists" (500 when the statement itself      *)
(* fails) and adds no row; no step changes or removes a stored row.        *)
C2_UniqueEmail == []C2_Emails /\ [][C2_DuplicateStep /\ RowsKept]_vars

C2_Witness ==
  /\ last.op = "create" /\ last.status = 409
  /\ \E i \in DOMAIN issued :
       /\ issued[i].email = last.req.email
       /\ employees[i].phone # Get(last.req, "phone")

(* What C3 calls a request that must be refused, among the bodies that are *)
(* JSON objects: a required field absent or empty, or an email value in    *)
(* which no "@" occurs.                                                    *)
C3_Refusable(data) ==
  IF data = NoBody THEN FALSE
  ELSE \/ \E f \in {"first_name", "last_name", "email"} :
            data[f].kind \in {"absent", "null"} \/ data[f].v = <<>>
       \/ ~ContainsAt(data.email)

C3_Step ==
  (Completes("create") /\ C3_Refusable(last'.req)) =>
    /\ last'.status = 400
    /\ last'.error # "none"
    /\ available' = available
    /\ employees' = employees

(* C3: a create whose first_name, last_name or email is absent or empty,   *)
(* or whose email value holds no "@", is answered 400 with an error        *)
(* message, takes no connection and stores nothing (stated of the code,    *)
(* which TLC refutes: an email that is a number is answered 500).          *)
C3_InvalidIs400 == [][C3_Step]_vars

(* A returned value equals the submitted one; a Decimal compares equal to  *)
(* the number it was built from.                                           *)
SameValue(returned, submitted) ==
  \/ returned = submitted
  \/ /\ returned.kind = "decimal"
     /\ submitted.kind = "int"
     /\ returned.v[1] = submitted.v[1]

OptionalFields == {"phone", "department", "position", "salary", "hire_date"}

C4_Step ==
  (Completes("create") /\ Required(last'.req) /\ last'.fault = "none" /\ last'.status # 409) =>
    /\ last'.status = 201
    /\ \A f \in {"first_name", "last_name", "email"} : last'.employee[f] = last'.req[f]
    /\ \A f \in OptionalFields :
         IF Has(last'.req, f) THEN SameValue(last'.employee[f], last'.req[f])
         ELSE last'.employee[f] = Null
    /\ last'.employee.id > 0
    /\ last'.employee.id \notin DOMAIN issued

(* C4: a create that passes validation, meets no storage failure and whose *)
(* email is not stored is answered 201 with an employee whose fields equal *)
(* the submitted ones, omitted optional fields null, and a positive id no  *)
(* earlier create returned (stated of the code, which TLC refutes: a       *)
(* submitted hire_date comes back as a date object, not as the text).      *)
C4_CreateReturnsSubmitted == [][C4_Step]_vars

C5_Step ==
  /\ \A i \in DOMAIN issued : i \in DOMAIN issued' /\ issued'[i] = issued[i]
  /\ (Completes("get") /\ last'.status # 500) =>
       LET i == last'.req.path IN
       IF i \in DOMAIN issued'
       THEN last'.status = 200 /\ last'.employee = issued'[i]
       ELSE (\A u \in Threads : lastrowid'[u] # i) =>
              last'.status = 404 /\ last'.error = "Employee not found"

(* C5: a get-by-id that is answered (not 500) is 404 when no create has    *)
(* returned the id and none in flight has generated it, and otherwise 200  *)
(* with the object the create's 201 carried; an issued object never        *)
(* changes (stated of the code, which TLC refutes: a create answered 500   *)
(* after its commit leaves a row that get-by-id returns).                  *)
C5_GetById == [][C5_Step]_vars

C6_Entries == last.employees

(* C6: a successful get-all holds exactly one entry for every create that  *)
(* had answered 201 when the request began, no entry that a refused create *)
(* (400 or 409) generated, ids strictly ascending, and count equal to the  *)
(* number of entries.                                                      *)
C6_GetAll ==
  (last.op = "get_all" /\ last.status = 200) =>
    /\ \A i \in last.seen :
         Cardinality({k \in 1..Len(C6_Entries) : C6_Entries[k].id = i}) = 1
    /\ \A k \in 1..Len(C6_Entries) :
         /\ C6_Entries[k].id \in DOMAIN origin
         /\ origin[C6_Entries[k].id] \notin {400, 409}
    /\ \A k \in 1..(Len(C6_Entries) - 1) : C6_Entries[k].id < C6_Entries[k + 1].id
    /\ last.count = Len(C6_Entries)

C6_Witness ==
  /\ last.op = "get_all" /\ last.status = 200
  /\ last.count = 2
  /\ Cardinality(last.seen) = 2

C7_Unavailable ==
  connection_pool = "None" =>
    /\ available = 0
    /\ Idle
    /\ (last.op \in {"get", "get_all"} \/ (last.op = "create" /\ Required(last.req))) =>
         last.status = 500 /\ last.error = "Internal server error"
    /\ last.op = "health" => last.status = 200

(* C7: with the pool never built, it stays unbuilt, no request obtains a   *)
(* connection, every create that passes validation, get-by-id and get-all  *)
(* is answered 500 "Internal server error", and health is answered 200.    *)
C7_PoolUnavailable ==
  []C7_Unavailable /\ [][connection_pool = "None" => connection_pool' = "None"]_vars

C7_Witness ==
  /\ connection_pool = "None"
  /\ last.op = "create" /\ Required(last.req)
  /\ last.status = 500
  /\ last.n = MaxRequests

InitSucceeded == connection_pool = "pool" /\ init_fault \in {"none", "lost_after"}

(* C8: requests are served only after init_database has completed: the     *)
(* service is serving only if the statement and the commit went through,   *)
(* and after any failure of init_database the process has exited with a    *)
(* nonzero code and has served nothing.                                    *)
C8_InitBeforeServing ==
  /\ phase = "serving" => InitSucceeded /\ table_exists /\ exit_code = 0
  /\ phase # "serving" => nreq = 0 /\ Idle /\ last = NoLast
  /\ phase = "exited" => exit_code # 0
  /\ (phase # "boot" /\ ~InitSucceeded) => phase = "exited"

C8_Witness ==
  /\ phase = "exited"
  /\ exit_code = 1
  /\ connection_pool = "pool"
  /\ init_fault = "commit_lost"

(* ISO-8601 text: YYYY-MM-DD or YYYY-MM-DDTHH:MM:SS                         *)
IsIso8601(value) ==
  /\ value.kind = "str"
  /\ \/ /\ Len(value.v) = 5
        /\ value.v[2] = "-" /\ value.v[4] = "-"
     \/ /\ Len(value.v) = 11
        /\ value.v[2] = "-" /\ value.v[4] = "-" /\ value.v[6] = "T"
        /\ value.v[8] = ":" /\ value.v[10] = ":"

(* The employee objects of the response completed last                     *)
Carried ==
  IF last.op \in {"create", "get"} /\ last.status \in {200, 201}
  THEN {last.employee}
  ELSE {last.employees[k] : k \in 1..Len(last.employees)}

(* C9: in every employee object of a response hire_date, created_at and    *)
(* updated_at are null or ISO-8601 text, and every other column is the     *)
(* stored value (stated of the code, which TLC refutes: hire_date is a     *)
(* date, which the isinstance(value, datetime) test passes over).          *)
C9_TemporalIso ==
  \A e \in Carried :
    /\ \A f \in {"hire_date", "created_at", "updated_at"} :
         e[f] = Null \/ IsIso8601(e[f])
    /\ \A f \in {"first_name", "last_name", "email", "phone", "department",
                 "position", "salary"} : e[f] = employees[e.id][f]

(* C10: a stored row belongs to a create that answered 201 or is still in  *)
(* flight, and every create that answered 201 has its row stored (stated   *)
(* of the code, which TLC refutes: a failure of the re-read, after the     *)
(* commit, answers 500 and leaves the row).                                *)
C10_PersistIff201 ==
  /\ \A i \in DOMAIN employees : origin[i] \in {0, 201}
  /\ \A i \in DOMAIN origin : origin[i] = 201 => i \in DOMAIN employees

====
